---- MODULE Spec2Model ----
(***************************************************************************)
(* Conversation state machine of the revision tutor                        *)
(* (backend/core/orchestrator_agent.py, backend/core/revision_agent.py,    *)
(* backend/core/conclusion_agent.py, backend/api/revision.py).             *)
(*                                                                         *)
(* One session id is modelled.  `store` is the record the session store    *)
(* holds for it (NoSession when the store has no record); every action is  *)
(* one whole call: load, one pass through the node graph, save.  `call`    *)
(* records what the last call observed and returned.                       *)
(*                                                                         *)
(* Generated text is abstracted to tags; what the generation service       *)
(* returns is a nondeterministic choice from the small sets below.         *)
(*                                                                         *)
(* `scenario` fixes the environment of a run: in "broad" the student sends *)
(* any input to any topic and the generation service returns any of its    *)
(* outputs, over a few calls; in "deep" the student presses buttons and    *)
(* answers questions and the service returns well-formed text, over more   *)
(* calls; in "failing" the student sends any input while every request to  *)
(* the generation service fails.                                           *)
(*                                                                         *)
(* `tasks` holds the handle calls in flight on the worker threads of the    *)
(* transport; it is used by the specification SpecRace, in which a call is  *)
(* two steps, load and run-and-save, and two workers serve the session.     *)
(***************************************************************************)
EXTENDS Integers, Sequences, FiniteSets, TLC

VARIABLES store, call, scenario, tasks

vars == <<store, call, scenario, tasks>>

\* ------------------------------------------------------------------------
\* Bounds
\* ------------------------------------------------------------------------
\* number of calls made in a run of each scenario
MaxCallsBroad == 4
MaxCallsDeep == 7
\* number of calls made in a run where two workers serve the session
MaxRaceCalls == 5
\* number of calls made in a run where the store's save can fail
MaxStoreCalls == 3
\* number of calls made in a run where the generation service is down
MaxFailCalls == 5

Scenarios == {"broad", "deep"}
Broad == scenario = "broad"
\* the generation service fails on every request
Failing == scenario = "failing"

\* ------------------------------------------------------------------------
\* Values
\* ------------------------------------------------------------------------
None == "None"
NoSession == [exists |-> FALSE]

\* a generated or templated text: tag, a number it shows, a concept it names
Text(t, n, c) == [t |-> t, n |-> n, c |-> c]
NoText == Text("", 0, "")

\* one chat bubble
Bubble(text, mt, buttons, section) ==
  [assistant_message |-> text, message_type |-> mt, buttons |-> buttons, section |-> section]

\* a response body: a plain string or a list of bubbles
StrResponse(text) == [kind |-> "str", text |-> text, msgs |-> <<>>]
ListResponse(msgs) == [kind |-> "list", text |-> NoText, msgs |-> msgs]
NoResponse == [kind |-> "none", text |-> NoText, msgs |-> <<>>]

\* state.get("response") is truthy
Truthy(resp) == \/ resp.kind = "str"
                \/ resp.kind = "list" /\ resp.msgs # <<>>

\* ------------------------------------------------------------------------
\* Content repository (a data source): two topics with content, one without
\* ------------------------------------------------------------------------
Topics == IF Broad \/ Failing THEN {"Physics: Forces", "Heat", "Void"} ELSE {"Physics: Forces", "Heat"}

TopicTitle(topic) == IF topic = "Physics: Forces" THEN "Forces" ELSE topic

get_topic_subtopics(title) ==
  IF title = "Forces"
  THEN << [subtopic_number |-> 1, subtopic_title |-> "Force", content |-> "force_text"],
          [subtopic_number |-> 2, subtopic_title |-> "Friction", content |-> "friction_text"] >>
  ELSE <<>>

get_topic_content(topic) ==
  IF topic = "Heat"
  THEN << [id |-> 7, subtopic_title |-> "", text |-> "tiny"] >>
  ELSE <<>>

\* len(content) of the stored texts
ContentLen(content) == IF content = "tiny" THEN 4 ELSE IF content = "" THEN 0 ELSE 400

ConceptChunks(topic) ==
  LET subtopics == get_topic_subtopics(TopicTitle(topic))
      flat == get_topic_content(topic)
  IN IF subtopics # <<>> THEN subtopics
     ELSE [i \in 1..Len(flat) |->
             [subtopic_number |-> flat[i].id,
              subtopic_title |-> flat[i].subtopic_title,
              content |-> flat[i].text]]

ConceptTitle(number) == IF number = 7 THEN "Concept 7" ELSE "Concept n"

ChunkTitle(chunk) ==
  IF chunk.subtopic_title # "" THEN chunk.subtopic_title ELSE ConceptTitle(chunk.subtopic_number)

\* ------------------------------------------------------------------------
\* Session record
\* ------------------------------------------------------------------------
NewSessionDoc(topic) ==
  [ exists |-> TRUE,
    topic |-> topic,
    conversation_count |-> 0,
    is_complete |-> FALSE,
    conversation_history |-> <<>>,
    current_concept_correct_answers |-> 0,
    required_correct_answers |-> 2,
    current_concept_questions_asked |-> <<>>,
    concept_chunks |-> <<>>,
    current_chunk_index |-> 0,
    has_used_learning_support |-> FALSE,
    expecting_button_action |-> FALSE,
    current_question_concept |-> None,
    current_content |-> "",
    expecting_answer |-> FALSE,
    current_expected_keywords |-> None,
    current_question |-> None,
    concept_mastered |-> FALSE,
    concepts_learned |-> <<>>,
    is_session_complete |-> FALSE,
    current_stage |-> "",
    \* keys of OrchestratorState the new record does not carry
    user_message |-> None,
    response |-> NoResponse,
    message_format |-> None,
    next_action |-> None,
    intent |-> None ]

\* a node's returned dict is merged key by key into the graph state
Merge(state, updates) ==
  [k \in DOMAIN state |-> IF k \in DOMAIN updates THEN updates[k] ELSE state[k]]

\* ------------------------------------------------------------------------
\* User input
\* ------------------------------------------------------------------------
\* user_message.lower().strip()
LowerStrip(q) ==
  CASE q = "Next Concept " -> "next concept"
    [] q = "I need more examples" -> "i need more examples"
    [] q = "Can you re-explain?" -> "can you re-explain?"
    [] q = "who is Newton" -> "who is newton"
    [] OTHER -> q

\* the inputs the student sends in the main specification
Inputs ==
  IF Broad \/ Failing
  THEN {"check_understanding", "more_examples", "re_explain", "more_questions",
        "next_concept", "who is Newton", "why", "I need more examples"}
  ELSE {"check_understanding", "more_examples", "more_questions", "next_concept"}

\* any(keyword in user_query.lower() for keyword in person_keywords)
HasPersonKeyword(q) == LowerStrip(q) = "who is newton"

\* ------------------------------------------------------------------------
\* Generation service: what the model returned, and what the tools make of it
\* ------------------------------------------------------------------------
\* llm_wrapper.generate_response: what the provider returned, or the apology when the
\* request failed
LlmFailure == "error"
Apology == "apology"

\* mutant: the wrapper lets the provider's error out
generate_response_unguarded(out) == out

generate_response(out) == IF out = LlmFailure THEN Apology ELSE out

\* explanation text: length of each of the three sections (0: header missing)
WellFormed == [definition |-> 120, technical |-> 120, examples |-> 120]

\* (the apology carries none of the three headers)
ExplainOut ==
  IF Failing THEN { [definition |-> 0, technical |-> 0, examples |-> 0] }
  ELSE IF Broad
  THEN { WellFormed,
         [definition |-> 120, technical |-> 120, examples |-> 0],
         [definition |-> 120, technical |-> 20, examples |-> 120],
         [definition |-> 0, technical |-> 0, examples |-> 0] }
  ELSE { WellFormed }

SectionBubble(name, section) ==
  Bubble(Text("explain_" \o name, 0, ""), "concept_section", <<>>, section)

_create_placeholder_bubbles(title) ==
  << Bubble(Text("placeholder_definition", 0, title), "concept_section", <<>>, "Definition"),
     Bubble(Text("placeholder_technical", 0, title), "concept_section", <<>>, "Technical"),
     Bubble(Text("placeholder_examples", 0, title), "concept_section", <<>>, "Examples") >>

\* mutant: the fallback is one combined bubble of the stored content
_create_detailed_fallback_single(content, title) ==
  << Bubble(Text("content", 0, content), "response", <<>>, "") >>

_create_detailed_fallback(content, title) ==
  IF ContentLen(content) < 50
  THEN _create_placeholder_bubbles(title)
  ELSE << Bubble(Text("fallback_definition", 0, title), "concept_section", <<>>, "Definition"),
          Bubble(Text("fallback_technical", 0, content), "concept_section", <<>>, "Technical"),
          Bubble(Text("fallback_examples", 0, content), "concept_section", <<>>, "Examples") >>

_parse_detailed_bubbles(resp, title, content) ==
  LET b1 == IF resp.definition > 0 THEN << SectionBubble("definition", "Definition") >> ELSE <<>>
      b2 == IF resp.technical > 0 THEN << SectionBubble("technical", "Technical") >> ELSE <<>>
      b3 == IF resp.examples > 0 THEN << SectionBubble("examples", "Examples") >> ELSE <<>>
      bubbles == b1 \o b2 \o b3
      tooShort == \/ resp.definition \in 1..49
                  \/ resp.technical \in 1..49
                  \/ resp.examples \in 1..49
  IN IF Len(bubbles) < 3 \/ tooShort
     THEN _create_detailed_fallback(content, title)
     ELSE bubbles

generate_structured_explanation(resp, title, content) ==
  _parse_detailed_bubbles(resp, title, content)

\* make_check_question returns resp.strip(): a question, the apology, or nothing
QuestionOut == IF Failing THEN {generate_response(LlmFailure)} ELSE IF Broad THEN {"question", ""} ELSE {"question"}

\* not isinstance(q, str) or not q.strip()  ->  "What is the main idea of {title}?"
CheckQuestion(resp, title) ==
  IF resp = "" THEN Text("main_idea_question", 0, title) ELSE Text(resp, 0, "")

\* extract_expected_keywords: a JSON list, or the first three words of the title
KeywordsOut == IF Failing THEN {generate_response(LlmFailure)} ELSE IF Broad THEN {"json_list", "not_json"} ELSE {"json_list"}

extract_expected_keywords(resp, title) ==
  IF resp = "json_list" THEN Text("keywords", 0, "") ELSE Text("title_words", 0, title)

\* evaluate_answer: the text after "VERDICT:", upper-cased; WRONG without it
VerdictOut ==
  IF Failing THEN {generate_response(LlmFailure)} ELSE 
  IF Broad THEN {"CORRECT", "PARTIAL", "WRONG", "MAYBE", ""} ELSE {"CORRECT", "WRONG"}

evaluate_answer(resp) == IF resp \in {"", Apology} THEN "WRONG" ELSE resp

\* check_question_relevance: "RELEVANT" if "RELEVANT" in resp.strip().upper()
RelevanceOut ==
  IF Failing THEN {generate_response(LlmFailure)} ELSE 
  IF Broad THEN {"RELEVANT", "IRRELEVANT", "unsure"} ELSE {"IRRELEVANT"}

HasRelevant(resp) == resp \in {"RELEVANT", "IRRELEVANT"}

check_question_relevance(resp) == IF HasRelevant(resp) THEN "RELEVANT" ELSE "IRRELEVANT"

\* detect_question_intent
IntentOut ==
  IF Failing THEN {generate_response(LlmFailure)} ELSE 
  IF Broad THEN {"ASKING_QUESTION", "PROVIDING_ANSWER", "ACKNOWLEDGEMENT"} ELSE {"PROVIDING_ANSWER"}

detect_question_intent(resp) ==
  IF resp = "ASKING_QUESTION" THEN "ASKING_QUESTION" ELSE "PROVIDING_ANSWER"

\* handle_qa_request, generate_examples: resp.strip()
AnswerOut == IF Failing THEN {generate_response(LlmFailure)} ELSE IF Broad THEN {"answer", ""} ELSE {"answer"}

\* conclusion_agent.summary
SummaryOut == IF Failing THEN {generate_response(LlmFailure)} ELSE IF Broad THEN {"summary", ""} ELSE {"summary"}

summary(resp, correct, total) ==
  IF correct > total \/ resp = ""
  THEN Text("mastered_x_of_y", correct, "")
  ELSE Text(resp, 0, "")

\* ------------------------------------------------------------------------
\* Turn bookkeeping
\* ------------------------------------------------------------------------
Turn(n, user, assistant, stage, concept, mt, buttons) ==
  [turn |-> n, user_message |-> user, assistant_message |-> assistant, stage |-> stage,
   concept_covered |-> concept, message_type |-> mt, buttons |-> buttons]

\* for i, message in enumerate(messages): append a turn numbered count + 1 + i;
\* the first turn carries `user` (None in the nodes that record no user text)
BubbleTurns(count, messages, stage, concept, user) ==
  [i \in 1..Len(messages) |->
     Turn(count + i, IF i = 1 THEN user ELSE None, messages[i].assistant_message, stage,
          concept, messages[i].message_type, messages[i].buttons)]

SupportButtons == <<"more_examples", "re_explain">>
AllLearningButtons == <<"more_examples", "re_explain", "check_understanding">>
MasteryButtons == <<"more_questions", "next_concept">>

\* the buttons bubble of handle_button / handle_qa / handle_custom
NextStepBubble(has_used_support) ==
  Bubble(Text("what_next", 0, ""), "buttons",
         IF has_used_support THEN AllLearningButtons ELSE SupportButtons, "")

\* what one node execution produced: the merged graph state and what it called
Out(state, updates, verdict, relevance, answered) ==
  [st |-> Merge(state, updates), verdict |-> verdict, relevance |-> relevance,
   answered |-> answered]

Plain(state, updates) == Out(state, updates, None, None, FALSE)

\* ------------------------------------------------------------------------
\* Nodes (each returns the set of its possible outcomes)
\* ------------------------------------------------------------------------
entry_route(state) ==
  IF state.user_message = None THEN "present_concept" ELSE "handle_input"

\* mutant: completion is looked at after the two mode flags
route_after_input_flags_first(state) ==
  IF state.expecting_button_action THEN "handle_button"
  ELSE IF state.expecting_answer THEN "evaluate_answer"
  ELSE IF state.is_complete THEN "conclusion"
  ELSE "detect_intent"

\* mutant: an expected answer is looked at before an expected button
route_after_input_answer_first(state) ==
  IF state.is_complete THEN "conclusion"
  ELSE IF state.expecting_answer THEN "evaluate_answer"
  ELSE IF state.expecting_button_action THEN "handle_button"
  ELSE "detect_intent"

route_after_input(state) ==
  IF state.is_complete THEN "conclusion"
  ELSE IF state.expecting_button_action THEN "handle_button"
  ELSE IF state.expecting_answer THEN "evaluate_answer"
  ELSE "detect_intent"

route_after_detect(state) ==
  IF state.intent = "ACKNOWLEDGEMENT" THEN "handle_ack"
  ELSE IF state.intent = "ASKING_QUESTION" THEN "handle_qa"
  ELSE "handle_custom"

route_after_button(state) ==
  IF state.next_action = "present_concept" THEN "present_concept" ELSE "end"

\* the updates of present_concept_node when it presents chunk idx with `resp`
PresentUpdates(state, resp) ==
  LET current == state.concept_chunks[state.current_chunk_index + 1]
      title == ChunkTitle(current)
      content == current.content
      structured_content == generate_structured_explanation(resp, title, content)
      buttons_message == Bubble(Text("what_next", 0, ""), "buttons", SupportButtons, "")
      existing_response == state.response
      transition_messages ==
        IF existing_response.kind = "list"
        THEN SelectSeq(existing_response.msgs, LAMBDA m : m.message_type = "transition")
        ELSE <<>>
      messages == transition_messages \o structured_content \o << buttons_message >>
  IN [ conversation_history |->
         state.conversation_history \o
           BubbleTurns(state.conversation_count, messages, "explain", title, None),
       conversation_count |-> state.conversation_count + Len(messages),
       expecting_button_action |-> TRUE,
       current_question_concept |-> title,
       current_content |-> content,
       response |-> ListResponse(messages),
       message_format |-> "multiple_bubbles",
       is_session_complete |-> FALSE,
       current_stage |-> "explain" ]

\* mutant: running out of concepts ends the turn but not the session
present_concept_node_open(state) ==
  IF state.current_stage = "explain" /\ Truthy(state.response)
  THEN { Plain(state, state) }
  ELSE IF state.current_chunk_index >= Len(state.concept_chunks)
  THEN { Plain(state,
           [ response |-> StrResponse(summary(r, Len(state.concepts_learned),
                                              Len(state.concept_chunks))),
             is_session_complete |-> TRUE,
             conversation_count |-> state.conversation_count,
             current_stage |-> "completed" ]) : r \in SummaryOut }
  ELSE { Plain(state, PresentUpdates(state, resp)) : resp \in ExplainOut }

\* mutant: a concept already presented is presented again
present_concept_node_again(state) ==
  IF state.current_chunk_index >= Len(state.concept_chunks)
  THEN { Plain(state,
           [ is_complete |-> TRUE,
             response |-> StrResponse(summary(r, Len(state.concepts_learned),
                                              Len(state.concept_chunks))),
             is_session_complete |-> TRUE,
             conversation_count |-> state.conversation_count,
             current_stage |-> "completed" ]) : r \in SummaryOut }
  ELSE { Plain(state, PresentUpdates(state, resp)) : resp \in ExplainOut }

present_concept_node(state) ==
  IF state.current_stage = "explain" /\ Truthy(state.response)
  THEN { Plain(state, state) }
  ELSE IF state.current_chunk_index >= Len(state.concept_chunks)
  THEN { Plain(state,
           [ is_complete |-> TRUE,
             response |-> StrResponse(summary(r, Len(state.concepts_learned),
                                              Len(state.concept_chunks))),
             is_session_complete |-> TRUE,
             conversation_count |-> state.conversation_count,
             current_stage |-> "completed" ]) : r \in SummaryOut }
  ELSE { Plain(state, PresentUpdates(state, resp)) : resp \in ExplainOut }

\* mutant: the user's turn is recorded but not counted
handle_input_node_uncounted(state) ==
  { Plain(state,
      [ conversation_history |->
          Append(state.conversation_history,
                 Turn(state.conversation_count + 1, state.user_message, NoText, "user_input",
                      state.current_question_concept, None, <<>>)) ]) }

\* mutant: the history is started again with the user's turn
handle_input_node_restart(state) ==
  { Plain(state,
      [ conversation_history |->
          << Turn(state.conversation_count + 1, state.user_message, NoText, "user_input",
                  state.current_question_concept, None, <<>>) >>,
        conversation_count |-> state.conversation_count + 1 ]) }

handle_input_node(state) ==
  { Plain(state,
      [ conversation_history |->
          Append(state.conversation_history,
                 Turn(state.conversation_count + 1, state.user_message, NoText, "user_input",
                      state.current_question_concept, None, <<>>)),
        conversation_count |-> state.conversation_count + 1 ]) }

detect_intent_node(state) ==
  { Plain(state, [intent |-> detect_question_intent(resp)]) : resp \in IntentOut }

handle_ack_node(state) ==
  LET nudge == Text("nudge", 0, "")
  IN { Plain(state,
         [ conversation_history |->
             Append(state.conversation_history,
                    Turn(state.conversation_count + 1, None, nudge, "ack", None, None, <<>>)),
           conversation_count |-> state.conversation_count + 1,
           response |-> StrResponse(nudge),
           is_session_complete |-> FALSE,
           current_stage |-> "ack" ]) }

conclusion_node(state) ==
  { Plain(state,
      [ response |-> StrResponse(summary(r, Len(state.concepts_learned),
                                         Len(state.concept_chunks))),
        is_session_complete |-> TRUE,
        current_stage |-> "completed" ]) : r \in SummaryOut }

\* the "no more concepts" exit at the top of handle_button_node
ButtonExhausted(state) ==
  { Plain(state,
      [ response |-> StrResponse(summary(r, Len(state.concepts_learned),
                                         Len(state.concept_chunks))),
        conversation_count |-> state.conversation_count,
        is_session_complete |-> TRUE,
        current_stage |-> "completed" ]) : r \in SummaryOut }

\* concept_mastered and user_query in ["more_questions", "more questions"]
MoreQuestions(state, title) ==
  { LET next_question == CheckQuestion(q, title)
        response_message ==
          Text("additional_question", state.current_concept_correct_answers + 1, "")
    IN Plain(state,
         [ concept_mastered |-> FALSE,
           expecting_button_action |-> FALSE,
           expecting_answer |-> TRUE,
           current_concept_questions_asked |->
             Append(state.current_concept_questions_asked, next_question),
           current_expected_keywords |-> extract_expected_keywords(k, title),
           current_question |-> next_question,
           conversation_history |->
             Append(state.conversation_history,
                    Turn(state.conversation_count + 1, None, response_message,
                         "additional_question", title, "question", <<>>)),
           conversation_count |-> state.conversation_count + 1,
           response |-> StrResponse(response_message),
           message_format |-> "single",
           is_session_complete |-> FALSE,
           current_stage |-> "additional_question" ])
    : q \in QuestionOut, k \in KeywordsOut }

\* the next_concept branch, moving the cursor to next_index with count turns so far
Advance(state, next_index, count) ==
  LET transition_message == Text("moving_on", 0, "")
  IN { Plain(state,
         [ concept_mastered |-> FALSE,
           current_chunk_index |-> next_index,
           expecting_answer |-> FALSE,
           expecting_button_action |-> FALSE,
           current_question_concept |-> None,
           current_content |-> "",
           current_concept_correct_answers |-> 0,
           current_concept_questions_asked |-> <<>>,
           response |-> ListResponse(<< Bubble(transition_message, "transition", <<>>, "") >>),
           message_format |-> "multiple_bubbles",
           conversation_history |->
             Append(state.conversation_history,
                    Turn(count + 1, None, transition_message,
                         "concept_transition", None, "transition", <<>>)),
           conversation_count |-> count + 1,
           next_action |-> "present_concept",
           is_session_complete |-> FALSE,
           current_stage |-> "concept_transition" ]) }

\* mutant: the cursor skips a concept
NextConcept_skip(state) ==
  Advance(state, state.current_chunk_index + 2, state.conversation_count)

\* mutant: turn numbering restarts with the new concept
NextConcept_recount(state) ==
  Advance(state, state.current_chunk_index + 1, 0)

\* concept_mastered and user_query in ["next_concept", "next concept"]
NextConcept(state) ==
  Advance(state, state.current_chunk_index + 1, state.conversation_count)

\* the check_understanding branch with correct_so_far answers counted
AskCheck(state, title, correct_so_far) ==
  { LET check_q == CheckQuestion(q, title)
        response_message == Text("quiz_question", correct_so_far + 1, "")
    IN Plain(state,
         [ current_concept_questions_asked |->
             Append(state.current_concept_questions_asked, check_q),
           expecting_answer |-> TRUE,
           current_expected_keywords |-> extract_expected_keywords(k, title),
           expecting_button_action |-> FALSE,
           current_question |-> check_q,
           conversation_history |->
             Append(state.conversation_history,
                    Turn(state.conversation_count + 1, None, response_message,
                         "quiz_question", title, "question", <<>>)),
           conversation_count |-> state.conversation_count + 1,
           response |-> StrResponse(response_message),
           message_format |-> "single",
           is_session_complete |-> FALSE,
           current_stage |-> "quiz_question" ])
    : q \in QuestionOut, k \in KeywordsOut }

\* mutant: the question number is one too high
CheckUnderstanding_numbering(state, title) ==
  AskCheck(state, title, state.current_concept_correct_answers + 1)

\* user_query in ["check_understanding", "check my understanding"]
CheckUnderstanding(state, title) ==
  AskCheck(state, title, state.current_concept_correct_answers)

\* the common tail of handle_button_node: response bubble, buttons bubble, turns
ButtonResponse(state, title, response_message, has_used_support, relevance, answered) ==
  LET messages == << Bubble(response_message, "response", <<>>, ""),
                     NextStepBubble(has_used_support) >>
  IN Out(state,
       [ has_used_learning_support |-> has_used_support,
         conversation_history |->
           state.conversation_history \o
             BubbleTurns(state.conversation_count, messages, "button_response", title, None),
         conversation_count |-> state.conversation_count + Len(messages),
         response |-> ListResponse(messages),
         message_format |-> "multiple_bubbles",
         is_session_complete |-> FALSE,
         current_stage |-> "button_response",
         next_action |-> "continue" ],
       None, relevance, answered)

\* the final else of handle_button_node: relevance-gated answer to free text
UnrecognizedInput(state, title) ==
  { LET relevant == check_question_relevance(rel) = "RELEVANT"
        generated == IF relevant THEN Text(a, 0, "") ELSE Text("off_topic", 0, title)
        response_message ==
          IF generated.t = "" THEN Text("stay_focused", 0, title) ELSE generated
    IN ButtonResponse(state, title, response_message, state.has_used_learning_support,
                      rel, relevant)
    : rel \in RelevanceOut, a \in AnswerOut }

handle_button_node(state) ==
  IF state.current_chunk_index >= Len(state.concept_chunks)
  THEN ButtonExhausted(state)
  ELSE
    LET current == state.concept_chunks[state.current_chunk_index + 1]
        title == ChunkTitle(current)
        content == current.content
        user_query == LowerStrip(state.user_message)
    IN IF state.concept_mastered /\ user_query \in {"more_questions", "more questions"}
       THEN MoreQuestions(state, title)
       ELSE IF state.concept_mastered /\ user_query \in {"next_concept", "next concept"}
       THEN NextConcept(state)
       ELSE IF user_query \in {"more_examples", "more examples"}
       THEN { ButtonResponse(state, title,
                IF a = "" THEN Text("fallback_example", 0, content) ELSE Text("examples", 0, ""),
                TRUE, None, FALSE) : a \in AnswerOut }
       ELSE IF user_query \in {"re_explain", "re-explain"}
       THEN { ButtonResponse(state, title, Text("explain_again", 4, ""), TRUE, None, FALSE) }
       ELSE IF user_query \in {"check_understanding", "check my understanding"}
       THEN CheckUnderstanding(state, title)
       ELSE UnrecognizedInput(state, title)

\* response bubble + buttons bubble of handle_qa_node and handle_custom_node
FreeTextResponse(state, text, mt, stage, relevance, answered) ==
  LET messages == << Bubble(text, mt, <<>>, ""),
                     NextStepBubble(state.has_used_learning_support) >>
  IN Out(state,
       [ conversation_history |->
           state.conversation_history \o
             BubbleTurns(state.conversation_count, messages, stage, None, None),
         conversation_count |-> state.conversation_count + Len(messages),
         expecting_button_action |-> TRUE,
         response |-> ListResponse(messages),
         message_format |-> "multiple_bubbles",
         is_session_complete |-> FALSE,
         current_stage |-> stage ],
       None, relevance, answered)

handle_qa_node(state) ==
  LET current_concept == state.current_question_concept
  IN IF HasPersonKeyword(state.user_message)
     THEN { FreeTextResponse(state, Text("off_topic_person", 0, current_concept),
                             "qa_response", "qa", None, FALSE) }
     ELSE { LET relevant == check_question_relevance(rel) = "RELEVANT"
                combined == IF relevant THEN Text(a, 0, "")
                            ELSE Text("off_topic", 0, current_concept)
            IN FreeTextResponse(state,
                 IF combined.t = "" THEN Text("stay_on_topic", 0, current_concept)
                 ELSE combined,
                 "qa_response", "qa", rel, relevant)
            : rel \in RelevanceOut, a \in AnswerOut }

handle_custom_node(state) ==
  { FreeTextResponse(state, Text("stay_on_topic_now", 0, state.current_question_concept),
                     "custom_response", "custom_input", None, FALSE) }

\* feedback bubble + buttons bubble of evaluate_answer_node, recorded as turns
\* whose first entry carries the user's answer
\* mutant: the feedback leaves the session waiting for an answer
FeedbackUpdates_keep_quiz(state, feedback, mt, buttons_mt, buttons, stage) ==
  LET messages == << Bubble(feedback, mt, <<>>, ""),
                     Bubble(Text("what_next", 0, ""), buttons_mt, buttons, "") >>
  IN [ expecting_answer |-> TRUE,
       expecting_button_action |-> TRUE,
       conversation_history |->
         state.conversation_history \o
           BubbleTurns(state.conversation_count, messages, stage, None, state.user_message),
       conversation_count |-> state.conversation_count + Len(messages),
       response |-> ListResponse(messages),
       message_format |-> "multiple_bubbles",
       is_session_complete |-> FALSE,
       current_stage |-> stage ]

FeedbackUpdates(state, feedback, mt, buttons_mt, buttons, stage) ==
  LET messages == << Bubble(feedback, mt, <<>>, ""),
                     Bubble(Text("what_next", 0, ""), buttons_mt, buttons, "") >>
  IN [ expecting_answer |-> FALSE,
       expecting_button_action |-> TRUE,
       conversation_history |->
         state.conversation_history \o
           BubbleTurns(state.conversation_count, messages, stage, None, state.user_message),
       conversation_count |-> state.conversation_count + Len(messages),
       response |-> ListResponse(messages),
       message_format |-> "multiple_bubbles",
       is_session_complete |-> FALSE,
       current_stage |-> stage ]

\* verdict == "CORRECT", already mastered and at or above the threshold
AdditionalCorrect(state) ==
  FeedbackUpdates(state, Text("correct_again", 0, ""), "additional_correct",
                  "mastery_buttons", MasteryButtons, "additional_correct")

\* mutant: mastery moves the cursor on by itself
ConceptMastered_advance(state, title, correct_answers) ==
  [ concepts_learned |-> Append(state.concepts_learned, title),
    concept_mastered |-> TRUE,
    current_chunk_index |-> state.current_chunk_index + 1 ] @@
  FeedbackUpdates(state, Text("correct_mastered", correct_answers, title),
                  "mastery_feedback", "mastery_buttons", MasteryButtons, "concept_mastered")

\* verdict == "CORRECT" and the incremented counter reaches the threshold
ConceptMastered(state, title, correct_answers) ==
  [ concepts_learned |-> Append(state.concepts_learned, title),
    concept_mastered |-> TRUE ] @@
  FeedbackUpdates(state, Text("correct_mastered", correct_answers, title),
                  "mastery_feedback", "mastery_buttons", MasteryButtons, "concept_mastered")

\* mutant: the next question is not added to the questions asked
NextQuestion_unlisted(state, title, correct_answers, q, k) ==
  LET next_question == CheckQuestion(q, title)
      combined_message == Text("correct_next_question", correct_answers + 1, "")
  IN [ current_concept_correct_answers |-> correct_answers,
       current_concept_questions_asked |-> state.current_concept_questions_asked,
       current_expected_keywords |-> extract_expected_keywords(k, title),
       current_question |-> next_question,
       conversation_history |->
         Append(state.conversation_history,
                Turn(state.conversation_count + 1, state.user_message, combined_message,
                     "correct_answer_next_question", None, None, <<>>)),
       conversation_count |-> state.conversation_count + 1,
       response |-> StrResponse(combined_message),
       message_format |-> "single",
       is_session_complete |-> FALSE,
       current_stage |-> "next_question" ]

\* verdict == "CORRECT" below the threshold: feedback and the next question
NextQuestion(state, title, correct_answers, q, k) ==
  LET next_question == CheckQuestion(q, title)
      combined_message == Text("correct_next_question", correct_answers + 1, "")
  IN [ current_concept_correct_answers |-> correct_answers,
       current_concept_questions_asked |->
         Append(state.current_concept_questions_asked, next_question),
       current_expected_keywords |-> extract_expected_keywords(k, title),
       current_question |-> next_question,
       conversation_history |->
         Append(state.conversation_history,
                Turn(state.conversation_count + 1, state.user_message, combined_message,
                     "correct_answer_next_question", None, None, <<>>)),
       conversation_count |-> state.conversation_count + 1,
       response |-> StrResponse(combined_message),
       message_format |-> "single",
       is_session_complete |-> FALSE,
       current_stage |-> "next_question" ]

evaluate_answer_node(state) ==
  LET title == state.current_question_concept
      correct_answers == state.current_concept_correct_answers
      required_total == state.required_correct_answers
      Verdict(v) ==
        IF v = "CORRECT"
        THEN IF state.concept_mastered /\ correct_answers >= required_total
             THEN { Out(state, AdditionalCorrect(state), v, None, FALSE) }
             ELSE IF correct_answers + 1 >= required_total
             THEN { Out(state, ConceptMastered(state, title, correct_answers + 1),
                        v, None, FALSE) }
             ELSE { Out(state, NextQuestion(state, title, correct_answers + 1, q, k),
                        v, None, FALSE) : q \in QuestionOut, k \in KeywordsOut }
        ELSE IF v = "PARTIAL"
        THEN { Out(state,
                   FeedbackUpdates(state, Text("partially_correct", 0, ""), "feedback",
                                   "buttons", AllLearningButtons, "partial_answer_feedback"),
                   v, None, FALSE) }
        ELSE { Out(state,
                   FeedbackUpdates(state, Text("incorrect", 0, ""), "feedback",
                                   "buttons", AllLearningButtons, "wrong_answer_feedback"),
                   v, None, FALSE) }
  IN UNION { Verdict(evaluate_answer(resp)) : resp \in VerdictOut }

\* ------------------------------------------------------------------------
\* One pass through the compiled graph (self.app.invoke)
\* ------------------------------------------------------------------------
Ran(outcomes, nodes) ==
  { [st |-> o.st, nodes |-> nodes, verdict |-> o.verdict, relevance |-> o.relevance,
     answered |-> o.answered] : o \in outcomes }

AfterButton(o) ==
  IF route_after_button(o.st) = "present_concept"
  THEN { [st |-> p.st, nodes |-> <<"handle_input", "handle_button", "present_concept">>,
          verdict |-> o.verdict, relevance |-> o.relevance, answered |-> o.answered]
         : p \in present_concept_node(o.st) }
  ELSE Ran({o}, <<"handle_input", "handle_button">>)

AfterDetect(d) ==
  LET route == route_after_detect(d.st)
      nodes == <<"handle_input", "detect_intent", route>>
  IN IF route = "handle_ack" THEN Ran(handle_ack_node(d.st), nodes)
     ELSE IF route = "handle_qa" THEN Ran(handle_qa_node(d.st), nodes)
     ELSE Ran(handle_custom_node(d.st), nodes)

AfterInput(s1) ==
  LET route == route_after_input(s1)
  IN IF route = "conclusion"
     THEN Ran(conclusion_node(s1), <<"handle_input", "conclusion">>)
     ELSE IF route = "handle_button"
     THEN UNION { AfterButton(o) : o \in handle_button_node(s1) }
     ELSE IF route = "evaluate_answer"
     THEN Ran(evaluate_answer_node(s1), <<"handle_input", "evaluate_answer">>)
     ELSE UNION { AfterDetect(d) : d \in detect_intent_node(s1) }

invoke(state) ==
  IF entry_route(state) = "present_concept"
  THEN Ran(present_concept_node(state), <<"present_concept">>)
  ELSE UNION { AfterInput(i.st) : i \in handle_input_node(state) }

\* ------------------------------------------------------------------------
\* Session store: a key-value store holding the record last saved
\* ------------------------------------------------------------------------
get_revision_session == store

save_revision_session(output_state) == store' = output_state

\* ------------------------------------------------------------------------
\* Calls
\* ------------------------------------------------------------------------
Result(response, message_format, is_session_complete, conversation_count, current_stage) ==
  [response |-> response, message_format |-> message_format,
   is_session_complete |-> is_session_complete, conversation_count |-> conversation_count,
   current_stage |-> current_stage]

ResultOf(output_state) ==
  Result(output_state.response, output_state.message_format,
         output_state.is_session_complete, output_state.conversation_count,
         output_state.current_stage)

\* what the caller gets when the call raised: the transport's error answer
Failure == Result(StrResponse(Text("exception", 0, "")), None, FALSE, 0, None)

NoRun == [nodes |-> <<>>, verdict |-> None, relevance |-> None, answered |-> FALSE]

\* consecutive CORRECT verdicts on the concept at hand, up to and including this call
Streak(run, after) ==
  LET same == /\ store.exists
              /\ after.current_chunk_index = store.current_chunk_index
              /\ after.current_question_concept = store.current_question_concept
              /\ after.concept_chunks = store.concept_chunks
      before == IF same THEN call.streak ELSE 0
  IN IF run.verdict = None THEN before
     ELSE IF run.verdict = "CORRECT" THEN before + 1
     ELSE 0

\* what the caller of one call observes: the call, what ran, what came back
Call(op, input, found, saved, run, after, result) ==
  [seq |-> call.seq + 1, op |-> op, input |-> input, found |-> found, saved |-> saved,
   nodes |-> run.nodes, verdict |-> run.verdict, relevance |-> run.relevance,
   answered |-> run.answered, streak |-> Streak(run, after), result |-> result,
   \* the user_message key of the record handed to save_revision_session
   saved_user_message |-> IF saved THEN after.user_message ELSE None]

NoCall ==
  [seq |-> 0, op |-> "none", input |-> None, found |-> FALSE, saved |-> FALSE, nodes |-> <<>>,
   verdict |-> None, relevance |-> None, answered |-> FALSE, streak |-> 0,
   result |-> Result(NoResponse, None, FALSE, 0, None), saved_user_message |-> None]

\* the bound on the length of a run
Accepting ==
  call.seq < (IF Broad THEN MaxCallsBroad ELSE IF Failing THEN MaxFailCalls ELSE MaxCallsDeep)

\* the run asked the generation service for something: every run does but the one
\* that skips a concept already presented
CallsService(state, run) ==
  /\ run.nodes # <<>>
  /\ ~(run.nodes = <<"present_concept">> /\ run.st = state)

\* an error of the generation service left the graph: the wrapper did not turn it
\* into the apology, and the node did not ask for it inside a try (the summary is)
Raised(state, run) ==
  /\ Failing /\ generate_response(LlmFailure) = LlmFailure
  /\ CallsService(state, run)
  /\ run.st.current_stage # "completed"

\* the end of a call whose graph run is `out`: save and return, or raise
Finish(op, input, state, out) ==
  IF Raised(state, out)
  THEN /\ call' = Call(op, input, store.exists, FALSE, out, store, Failure)
       /\ UNCHANGED store
  ELSE /\ save_revision_session(out.st)
       /\ call' = Call(op, input, store.exists, TRUE, out, out.st, ResultOf(out.st))

\* the rest of start_revision_session: create or load, fetch the chunks, reset the
\* cursor, run the graph, save
RunStart(topic) ==
  LET loaded == IF get_revision_session.exists THEN get_revision_session
                ELSE NewSessionDoc(topic)
      session_doc == [loaded EXCEPT !.concept_chunks = ConceptChunks(topic),
                                    !.current_chunk_index = 0]
  IN \E out \in invoke(session_doc) :
       /\ Finish("start", topic, session_doc, out)
       /\ UNCHANGED <<scenario, tasks>>

\* mutant: a complete session is started again like any other
StartComplete_rerun(topic) ==
  /\ get_revision_session.exists /\ get_revision_session.is_complete
  /\ Accepting
  /\ RunStart(topic)

\* start_revision_session on a stored session that is complete
StartComplete(topic) ==
  /\ get_revision_session.exists /\ get_revision_session.is_complete
  /\ Accepting
  /\ call' = Call("start", topic, TRUE, FALSE, NoRun, store,
                  Result(StrResponse(Text("already_completed", 0, "")), None, TRUE, 0, None))
  /\ UNCHANGED <<store, scenario, tasks>>

StartSession(topic) ==
  /\ ~(get_revision_session.exists /\ get_revision_session.is_complete)
  /\ Accepting
  /\ RunStart(topic)

start_revision_session ==
  \E topic \in Topics : StartComplete(topic) \/ StartSession(topic)

\* mutant: an unknown session id is served from an empty record
HandleNotFound_create(user_query) ==
  /\ ~get_revision_session.exists
  /\ Accepting
  /\ LET state == [NewSessionDoc(None) EXCEPT !.user_message = user_query]
     IN \E out \in invoke(state) :
          /\ save_revision_session(out.st)
          /\ call' = Call("handle", user_query, FALSE, TRUE, out, out.st, ResultOf(out.st))
  /\ UNCHANGED <<scenario, tasks>>

\* handle_user_input on a session id the store does not hold
HandleNotFound(user_query) ==
  /\ ~get_revision_session.exists
  /\ Accepting
  /\ call' = Call("handle", user_query, FALSE, FALSE, NoRun, store,
                  Result(StrResponse(Text("session_not_found", 0, "")), None, TRUE, 0, None))
  /\ UNCHANGED <<store, scenario, tasks>>

\* handle_user_input on a stored session: load, set user_message, run, save
HandleSession(user_query) ==
  /\ get_revision_session.exists
  /\ Accepting
  /\ LET state == [get_revision_session EXCEPT !.user_message = user_query]
     IN \E out \in invoke(state) : Finish("handle", user_query, state, out)
  /\ UNCHANGED <<scenario, tasks>>

handle_user_input ==
  \E user_query \in Inputs : HandleNotFound(user_query) \/ HandleSession(user_query)

\* POST /revision/end/{session_id}: the caller ends a session that is not complete
end_revision_session ==
  /\ get_revision_session.exists /\ ~get_revision_session.is_complete
  /\ Accepting
  /\ store' = [store EXCEPT !.is_complete = TRUE]
  /\ call' = Call("end", None, TRUE, TRUE, NoRun, store', Result(NoResponse, None, FALSE, 0, None))
  /\ UNCHANGED <<scenario, tasks>>

\* ------------------------------------------------------------------------
\* Transport: handle calls on worker threads (thread_pool, the server's workers)
\* ------------------------------------------------------------------------
\* two of the workers that can serve one session id
Tasks == {1, 2}

Idle ==
  [pc |-> "idle", input |-> None, loaded |-> NoSession, out |-> NoSession, stale |-> FALSE]

\* calls between their load and their return
InFlight == {t \in Tasks : tasks[t].pc = "loaded"}

\* the bound on the length of a run with two workers
AcceptingRace == call.seq + Cardinality(InFlight) < MaxRaceCalls

\* a worker picks up a handle call and loads the session; an unknown id returns at once
Load(t, user_query) ==
  /\ tasks[t].pc # "loaded"
  /\ AcceptingRace
  /\ IF get_revision_session.exists
     THEN /\ tasks' = [tasks EXCEPT ![t] = [pc |-> "loaded", input |-> user_query,
                                            loaded |-> get_revision_session,
                                            out |-> NoSession, stale |-> FALSE]]
          /\ UNCHANGED call
     ELSE /\ tasks' = [tasks EXCEPT ![t] = [pc |-> "done", input |-> user_query,
                                            loaded |-> NoSession, out |-> NoSession,
                                            stale |-> FALSE]]
          /\ call' = Call("handle", user_query, FALSE, FALSE, NoRun, store,
                          Result(StrResponse(Text("session_not_found", 0, "")),
                                 None, TRUE, 0, None))
  /\ UNCHANGED <<store, scenario>>

\* what a save leaves of the workers: the saver is done, the others in flight hold a
\* record the store no longer has
AfterSave(t, out) ==
  [u \in Tasks |->
     IF u = t THEN [tasks[t] EXCEPT !.pc = "done", !.out = out]
     ELSE IF tasks[u].pc = "loaded" THEN [tasks[u] EXCEPT !.stale = TRUE]
     ELSE tasks[u]]

\* mutant: a save keeps the turns stored since the load
RunAndSave_merge(t) ==
  /\ tasks[t].pc = "loaded"
  /\ LET state == [tasks[t].loaded EXCEPT !.user_message = tasks[t].input]
         base == Len(tasks[t].loaded.conversation_history)
     IN \E o \in invoke(state) :
          LET own == SubSeq(o.st.conversation_history, base + 1,
                            Len(o.st.conversation_history))
              merged == [o.st EXCEPT !.conversation_history =
                                       store.conversation_history \o own]
          IN /\ save_revision_session(merged)
             /\ tasks' = AfterSave(t, o.st)
             /\ call' = Call("handle", tasks[t].input, TRUE, TRUE, o, o.st, ResultOf(o.st))
  /\ UNCHANGED scenario

\* the worker runs the graph on the record it loaded, saves the output and returns
RunAndSave(t) ==
  /\ tasks[t].pc = "loaded"
  /\ LET state == [tasks[t].loaded EXCEPT !.user_message = tasks[t].input]
     IN \E o \in invoke(state) :
          /\ save_revision_session(o.st)
          /\ tasks' = AfterSave(t, o.st)
          /\ call' = Call("handle", tasks[t].input, TRUE, TRUE, o, o.st, ResultOf(o.st))
  /\ UNCHANGED scenario

\* POST /revision/start creates the session the workers then serve
StartRace ==
  /\ ~get_revision_session.exists
  /\ AcceptingRace
  /\ \E topic \in Topics : StartSession(topic)

continue_revision_session ==
  \E t \in Tasks : \/ \E user_query \in Inputs : Load(t, user_query)
                    \/ RunAndSave(t)

\* ------------------------------------------------------------------------
\* Calls against a store whose save can fail
\* ------------------------------------------------------------------------
\* save_revision_session stored the record, returned false, or raised
SaveOutcomes == {"saved", "false", "raised"}

AcceptingStore == call.seq < MaxStoreCalls

\* the end of start_revision_session and handle_user_input: the save's return value
\* is not looked at, an exception of the save leaves the call
Persist(op, input, out, outcome) ==
  /\ store' = IF outcome = "saved" THEN out.st ELSE store
  /\ call' = IF outcome = "raised"
             THEN Call(op, input, store.exists, FALSE, out, store, Failure)
             ELSE Call(op, input, store.exists, outcome = "saved", out,
                       IF outcome = "saved" THEN out.st ELSE store, ResultOf(out.st))
  /\ UNCHANGED <<scenario, tasks>>

StartStore(topic, outcome) ==
  /\ ~(get_revision_session.exists /\ get_revision_session.is_complete)
  /\ AcceptingStore
  /\ LET loaded == IF get_revision_session.exists THEN get_revision_session
                   ELSE NewSessionDoc(topic)
         session_doc == [loaded EXCEPT !.concept_chunks = ConceptChunks(topic),
                                       !.current_chunk_index = 0]
     IN \E out \in invoke(session_doc) : Persist("start", topic, out, outcome)

HandleStore(user_query, outcome) ==
  /\ get_revision_session.exists
  /\ AcceptingStore
  /\ LET state == [get_revision_session EXCEPT !.user_message = user_query]
     IN \E out \in invoke(state) : Persist("handle", user_query, out, outcome)

NextStore ==
  \/ \E topic \in Topics, outcome \in SaveOutcomes : StartStore(topic, outcome)
  \/ \E user_query \in Inputs, outcome \in SaveOutcomes : HandleStore(user_query, outcome)

Init ==
  /\ store = NoSession
  /\ call = NoCall
  /\ scenario \in Scenarios
  /\ tasks = [t \in Tasks |-> Idle]

Next ==
  \/ start_revision_session
  \/ handle_user_input
  \/ end_revision_session

Spec == Init /\ [][Next]_vars

NextRace ==
  \/ StartRace
  \/ continue_revision_session

\* two workers serving one session id, the student pressing buttons and answering
InitRace == Init /\ ~Broad

SpecRace == InitRace /\ [][NextRace]_vars

\* calls made one at a time while the generation service is down
InitFail ==
  /\ store = NoSession
  /\ call = NoCall
  /\ scenario = "failing"
  /\ tasks = [t \in Tasks |-> Idle]

SpecFail == InitFail /\ [][Next]_vars

\* calls made one at a time against a store whose save can fail
SpecStore == Init /\ [][NextStore]_vars

\* ------------------------------------------------------------------------
\* The free-text branch of the graph on its own: detect_intent, route_after_detect
\* and the node it selects, applied to a stored session after handle_input
\* ------------------------------------------------------------------------
\* one pass from handle_input through detect_intent, the classification being resp;
\* nothing is saved
run_detect_intent ==
  /\ get_revision_session.exists /\ ~get_revision_session.is_complete
  /\ Accepting
  /\ \E user_query \in Inputs, resp \in IntentOut :
       LET state == [get_revision_session EXCEPT !.user_message = user_query]
       IN \E i \in handle_input_node(state) :
            \E d \in {x \in detect_intent_node(i.st) :
                         x.st.intent = detect_question_intent(resp)} :
              \E out \in AfterDetect(d) :
                call' = Call("detect", user_query, TRUE, FALSE, out, store, ResultOf(out.st))
                          @@ [ classification |-> resp,
                               expecting_answer |-> out.st.expecting_answer,
                               expecting_button_action |-> out.st.expecting_button_action ]
  /\ UNCHANGED <<store, scenario, tasks>>

NextNodes ==
  \/ start_revision_session
  \/ run_detect_intent

InitNodes == Init /\ Broad

SpecNodes == InitNodes /\ [][NextNodes]_vars

\* ------------------------------------------------------------------------
\* Calls in which a node raises: the exception leaves self.app.invoke and the
\* method, save_revision_session is not reached, the transport answers the error
\* ------------------------------------------------------------------------
\* mutant: the user's turn is written to the store before the graph goes on
HandleRaises_partial(user_query) ==
  /\ get_revision_session.exists
  /\ Accepting
  /\ LET state == [get_revision_session EXCEPT !.user_message = user_query]
     IN \E out \in invoke(state) :
          /\ out.nodes # <<>> /\ out.nodes[1] = "handle_input"
          /\ \E i \in handle_input_node(state) : store' = i.st
          /\ call' = Call("handle", user_query, TRUE, FALSE, out, store, Failure)
  /\ UNCHANGED <<scenario, tasks>>

\* handle_user_input when the last node of the run raises
HandleRaises(user_query) ==
  /\ get_revision_session.exists
  /\ Accepting
  /\ LET state == [get_revision_session EXCEPT !.user_message = user_query]
     IN \E out \in invoke(state) :
          call' = Call("handle", user_query, TRUE, FALSE, out, store, Failure)
  /\ UNCHANGED <<store, scenario, tasks>>

\* start_revision_session on a stored session when the last node of the run raises
StartRaises(topic) ==
  /\ get_revision_session.exists /\ ~get_revision_session.is_complete
  /\ Accepting
  /\ LET session_doc == [get_revision_session EXCEPT
                           !.concept_chunks = ConceptChunks(topic),
                           !.current_chunk_index = 0]
     IN \E out \in invoke(session_doc) :
          call' = Call("start", topic, TRUE, FALSE, out, store, Failure)
  /\ UNCHANGED <<store, scenario, tasks>>

node_raises ==
  \/ \E topic \in Topics : StartRaises(topic)
  \/ \E user_query \in Inputs : HandleRaises(user_query)

NextRaise ==
  \/ start_revision_session
  \/ handle_user_input
  \/ node_raises

InitRaise == Init /\ ~Broad

SpecRaise == InitRaise /\ [][NextRaise]_vars

\* ------------------------------------------------------------------------
\* Properties
\* ------------------------------------------------------------------------
Saved == store.exists

\* number of entries of a list equal to x
Count(seq, x) == Cardinality({i \in 1..Len(seq) : seq[i] = x})

IsNextConcept(q) == LowerStrip(q) \in {"next_concept", "next concept"}

\* C1: in every saved session, expecting_answer and expecting_button_action are
\* never both true.
C1_FlagsExclusive ==
  Saved => ~(store.expecting_answer /\ store.expecting_button_action)

\* C2: mastery-once: in every saved session, the title of the concept at each chunk
\* index appears in concepts_learned at most once.
C2_MasteryOnce ==
  Saved => \A i \in 1..Len(store.concept_chunks) :
             Count(store.concepts_learned, ChunkTitle(store.concept_chunks[i])) <= 1

\* C3: in every saved session, 0 <= current_chunk_index <= len(concept_chunks).
C3_CursorInRange ==
  Saved => /\ 0 <= store.current_chunk_index
           /\ store.current_chunk_index <= Len(store.concept_chunks)

\* next_concept on the last chunk has put the cursor at len(concept_chunks)
C3_Witness ==
  /\ Saved /\ call.op = "handle" /\ IsNextConcept(call.input)
  /\ call.nodes = <<"handle_input", "handle_button", "present_concept">>
  /\ Len(store.concept_chunks) >= 1
  /\ store.current_chunk_index = Len(store.concept_chunks)

\* C4: a handle call changes current_chunk_index only when the session was in button
\* mode with concept_mastered true and the input is next_concept, and then by exactly
\* one; a call that ran evaluate_answer leaves it unchanged.
C4_ProgressOnlyByNextConcept ==
  [][ (call'.op = "handle" /\ store.exists)
        => /\ store'.current_chunk_index # store.current_chunk_index
                => /\ ~store.is_complete
                   /\ store.expecting_button_action
                   /\ store.concept_mastered
                   /\ IsNextConcept(call'.input)
                   /\ store'.current_chunk_index = store.current_chunk_index + 1
           /\ (\E i \in 1..Len(call'.nodes) : call'.nodes[i] = "evaluate_answer")
                => store'.current_chunk_index = store.current_chunk_index ]_vars

\* next_concept has moved the cursor from the first concept to the second
C4_Witness ==
  /\ Saved /\ call.op = "handle" /\ call.input = "next_concept"
  /\ call.result.current_stage = "explain"
  /\ store.current_chunk_index = 1
  /\ Len(store.concept_chunks) = 2

\* C5: for every handle call on an existing session, the saved conversation_count
\* after the call is at least the conversation_count before it.
C5_CountMonotonic ==
  [][ (call'.op = "handle" /\ store.exists)
        => store'.conversation_count >= store.conversation_count ]_vars

\* a handle call that went on to present the next concept has been saved
C5_Witness ==
  /\ Saved /\ call.op = "handle" /\ call.saved
  /\ Len(call.nodes) = 3
  /\ store.conversation_count > 11

\* C6: start on a session stored as complete returns is_session_complete = true,
\* does not save, and leaves the stored conversation_history unchanged.
C6_StartOnCompleteIsIdle ==
  [][ (call'.op = "start" /\ store.exists /\ store.is_complete)
        => /\ call'.result.is_session_complete
           /\ ~call'.saved
           /\ store' = store
           /\ Len(store'.conversation_history) = Len(store.conversation_history) ]_vars

\* start has been called on a complete session with a history
C6_Witness ==
  /\ Saved /\ store.is_complete /\ call.op = "start" /\ call.found /\ ~call.saved
  /\ Len(store.conversation_history) > 0

\* C7: handle on a session id the store does not hold returns a terminal response,
\* runs no node, saves nothing and creates no record.
C7_UnknownSession ==
  [][ (call'.op = "handle" /\ ~store.exists)
        => /\ call'.result.is_session_complete
           /\ call'.nodes = <<>>
           /\ ~call'.saved
           /\ ~store'.exists ]_vars

\* handle has been called before any start
C7_Witness ==
  /\ ~Saved /\ call.op = "handle" /\ ~call.found
  /\ call.result.response.text.t = "session_not_found"

\* the bubbles of a response are three concept sections and a buttons bubble
FourBubbles(response) ==
  /\ response.kind = "list"
  /\ Len(response.msgs) = 4
  /\ \A i \in 1..3 : response.msgs[i].message_type = "concept_section"
  /\ response.msgs[4].message_type = "buttons"

\* C8: scenario A: start on an unknown session id for a topic with at least one chunk
\* yields stage "explain", format "multiple_bubbles", three concept_section bubbles and
\* one buttons bubble, and a saved session expecting a button, whatever text the
\* explanation came back as.
C8_ScenarioA ==
  (call.op = "start" /\ ~call.found /\ Len(ConceptChunks(call.input)) >= 1)
    => /\ call.result.current_stage = "explain"
       /\ call.result.message_format = "multiple_bubbles"
       /\ FourBubbles(call.result.response)
       /\ Saved /\ call.saved
       /\ store.expecting_button_action

\* a fresh start whose explanation did not parse, on content too short to split
C8_Witness ==
  /\ call.op = "start" /\ ~call.found /\ Len(ConceptChunks(call.input)) >= 1
  /\ call.result.response.kind = "list"
  /\ call.result.response.msgs[1].assistant_message.t = "placeholder_definition"

\* the state right after a fresh start that presented a concept
AfterFreshStart ==
  /\ call.op = "start" /\ ~call.found /\ call.saved
  /\ call.result.current_stage = "explain"

\* C9: scenario B: from the state right after a fresh start, handle with
\* check_understanding yields stage "quiz_question", a single question message
\* showing "Question 1:", and a saved session with expecting_answer = true and
\* expecting_button_action = false.
C9_ScenarioB ==
  [][ (AfterFreshStart /\ call'.op = "handle" /\ call'.input = "check_understanding")
        => /\ call'.result.current_stage = "quiz_question"
           /\ call'.result.message_format = "single"
           /\ call'.result.response.kind = "str"
           /\ call'.result.response.text.t = "quiz_question"
           /\ call'.result.response.text.n = 1
           /\ store'.expecting_answer
           /\ ~store'.expecting_button_action ]_vars

\* check_understanding was the first input after a fresh start, although the buttons
\* bubble shown did not offer it
C9_Witness ==
  /\ call.seq = 2 /\ call.op = "handle" /\ call.input = "check_understanding"
  /\ call.result.current_stage = "quiz_question"
  /\ ~store.has_used_learning_support
  /\ store.conversation_history[4].buttons = SupportButtons

\* C10: scenario C: with required_correct_answers = 2, two consecutive CORRECT verdicts
\* on one concept end with stage "concept_mastered", concept_mastered = true,
\* expecting_answer = false, expecting_button_action = true, a mastery_buttons bubble
\* offering more_questions and next_concept, and the concept's title exactly once in
\* concepts_learned.
C10_ScenarioC ==
  (/\ Saved /\ call.op = "handle" /\ call.verdict = "CORRECT" /\ call.streak >= 2
   /\ store.required_correct_answers = 2)
    => /\ call.result.current_stage = "concept_mastered"
       /\ store.concept_mastered
       /\ ~store.expecting_answer
       /\ store.expecting_button_action
       /\ call.result.response.kind = "list"
       /\ \E i \in 1..Len(call.result.response.msgs) :
            /\ call.result.response.msgs[i].message_type = "mastery_buttons"
            /\ call.result.response.msgs[i].buttons = MasteryButtons
       /\ Count(store.concepts_learned, store.current_question_concept) = 1

\* the text of a response is a session summary, generated or templated
IsSummary(response) ==
  /\ response.kind = "str"
  /\ response.text.t \in {"summary", "mastered_x_of_y"}

\* a handle call with next_concept on a stored session whose cursor is on the last
\* chunk and whose concept is mastered
LastChunkMastered ==
  /\ store.exists /\ store.concept_mastered
  /\ Len(store.concept_chunks) >= 1
  /\ store.current_chunk_index = Len(store.concept_chunks) - 1
  /\ call'.op = "handle" /\ IsNextConcept(call'.input)

ScenarioD_Outcome ==
  /\ call'.result.is_session_complete
  /\ call'.result.current_stage = "completed"
  /\ IsSummary(call'.result.response)
  /\ store'.is_complete
  /\ store'.current_chunk_index = Len(store'.concept_chunks)

\* C11 as stated: scenario D: when current_chunk_index is the last chunk and the
\* concept is mastered, handle with next_concept returns is_session_complete = true,
\* stage "completed" and a summary string, and the saved session has is_complete = true
\* and current_chunk_index = len(concept_chunks).
C11_ScenarioD_AsStated ==
  [][ LastChunkMastered => ScenarioD_Outcome ]_vars

\* C11: scenario D holds of every session that is not complete and is expecting a
\* button action: on the last chunk with the concept mastered, handle with next_concept
\* returns is_session_complete = true, stage "completed" and a summary string, and
\* saves is_complete = true with the cursor at len(concept_chunks).
C11_ScenarioD ==
  [][ (LastChunkMastered /\ ~store.is_complete /\ store.expecting_button_action)
        => ScenarioD_Outcome ]_vars

\* next_concept on the last, mastered chunk has completed the session
C11_Witness ==
  /\ Saved /\ call.op = "handle" /\ IsNextConcept(call.input)
  /\ call.nodes = <<"handle_input", "handle_button", "present_concept">>
  /\ call.result.current_stage = "completed" /\ IsSummary(call.result.response)
  /\ store.is_complete /\ Len(store.concepts_learned) >= 1
  /\ store.current_chunk_index = Len(store.concept_chunks)

\* the first bubble of a response is the off-topic redirect naming `title`
IsRedirect(response, title) ==
  /\ response.kind = "list" /\ Len(response.msgs) >= 1
  /\ response.msgs[1].assistant_message.t = "off_topic"
  /\ response.msgs[1].assistant_message.c = title

\* C12: scenario E: when a free-text question is handled and the generation service's
\* relevance output is the text IRRELEVANT, the answering operation is not called, the
\* response is an off-topic redirect naming the current concept's title, and the saved
\* session has expecting_button_action = true and expecting_answer = false.
C12_ScenarioE ==
  (Saved /\ call.op = "handle" /\ call.saved /\ call.relevance = "IRRELEVANT")
    => /\ ~call.answered
       /\ IsRedirect(call.result.response,
                     ChunkTitle(store.concept_chunks[store.current_chunk_index + 1]))
       /\ store.expecting_button_action
       /\ ~store.expecting_answer

\* C13: every start call on a session that is not complete, new or already existing,
\* leaves current_chunk_index = 0 and runs present_concept as its only node; it never
\* runs handle_input or a node that consumes a user message.
C13_StartPresentsOnly ==
  [][ (call'.op = "start" /\ ~(store.exists /\ store.is_complete))
        => /\ store'.current_chunk_index = 0
           /\ call'.nodes = <<"present_concept">> ]_vars

\* C14: user_message is transient: the record a handle call passes to the store's save
\* carries no user_message of that call, so the next call does not see it.
C14_UserMessageTransient ==
  (call.op = "handle" /\ call.saved) => call.saved_user_message = None

\* C15: is_complete is terminal: once a saved session has is_complete = true, every
\* later start or handle call leaves it true, every later handle call runs conclusion
\* and returns is_session_complete = true with stage "completed", and the cursor,
\* concepts_learned and both mode flags stay as they were.
C15_CompleteIsTerminal ==
  [][ (store.exists /\ store.is_complete /\ call'.op \in {"start", "handle"})
        => /\ store'.exists /\ store'.is_complete
           /\ call'.op = "handle"
                => /\ call'.nodes = <<"handle_input", "conclusion">>
                   /\ call'.result.is_session_complete
                   /\ call'.result.current_stage = "completed"
           /\ store'.current_chunk_index = store.current_chunk_index
           /\ store'.concepts_learned = store.concepts_learned
           /\ store'.expecting_button_action = store.expecting_button_action
           /\ store'.expecting_answer = store.expecting_answer ]_vars

\* a handle call on a session the caller ended while it was expecting a button
C15_Witness ==
  /\ Saved /\ store.is_complete /\ store.expecting_button_action
  /\ store.current_chunk_index < Len(store.concept_chunks)
  /\ call.op = "handle" /\ call.nodes = <<"handle_input", "conclusion">>
  /\ call.result.current_stage = "completed"

\* worker t saves in this step a record it loaded before another call's save
StaleSave(t) ==
  /\ tasks[t].pc = "loaded" /\ tasks[t].stale
  /\ tasks'[t].pc = "done"

\* number of turns the call of worker t appended to the record it loaded
OwnTurns(task) ==
  Len(task.out.conversation_history) - Len(task.loaded.conversation_history)

\* C16: two handle calls running at once on one session id, each load -> mutate ->
\* save with no versioning: when a call saves after another call's save that came
\* after its own load, the stored record becomes exactly the record computed from
\* what the call loaded and its own input, whatever the store held (last write wins).
C16_LastWriteWins ==
  [][ \A t \in Tasks :
        StaleSave(t)
          => /\ store' = tasks'[t].out
             /\ \E o \in invoke([tasks[t].loaded EXCEPT !.user_message = tasks[t].input]) :
                  store' = o.st ]_vars

\* both workers have returned a response and the store holds the turns of one call only
C16_Witness ==
  \E t, u \in Tasks :
    /\ t # u
    /\ tasks[t].pc = "done" /\ tasks[u].pc = "done"
    /\ tasks[t].stale /\ ~tasks[u].stale
    /\ tasks[t].loaded = tasks[u].loaded /\ tasks[t].loaded.exists
    /\ store = tasks[t].out
    /\ call.op = "handle" /\ call.saved
    /\ Len(store.conversation_history)
         < Len(tasks[t].loaded.conversation_history) + OwnTurns(tasks[t]) + OwnTurns(tasks[u])

\* C17: the transport enforces per-session mutual exclusion: at most one start or
\* handle invocation for the session id is in flight at any time.
C17_MutualExclusion ==
  Cardinality(InFlight) <= 1

\* C18: a persistence failure is never swallowed: when the store's save reports
\* failure, by returning false or by raising, at the end of a start or handle call,
\* the call does not return a normal response but a failed operation.
C18_SaveFailureSurfaces ==
  (call.op \in {"start", "handle"} /\ call.nodes # <<>> /\ ~call.saved)
    => call.result = Failure

\* C19: a failure of a generation service operation does not make start or handle
\* raise: with the service failing on every request, every call that runs the graph
\* still returns a response and still saves the session.
C19_GenerationFailureContained ==
  (Failing /\ call.op \in {"start", "handle"} /\ call.nodes # <<>>)
    => /\ call.result # Failure
       /\ Truthy(call.result.response)
       /\ call.saved /\ Saved

\* an answer was judged while the service was down: the question asked was the
\* apology text and the verdict fell back to WRONG
C19_Witness ==
  /\ Failing /\ Saved /\ call.op = "handle" /\ call.saved
  /\ call.nodes = <<"handle_input", "evaluate_answer">>
  /\ call.verdict = "WRONG"
  /\ store.current_question = Text(Apology, 0, "")
  /\ call.result.current_stage = "wrong_answer_feedback"

\* seq p is an initial part of seq q
IsPrefix(p, q) == Len(p) <= Len(q) /\ SubSeq(q, 1, Len(p)) = p

\* C20: conversation_history is append-only: for every start or handle call executed
\* one at a time on a stored session, the stored history before the call is a prefix
\* of the stored history after it.
C20_HistoryAppendOnly ==
  [][ (call'.op \in {"start", "handle"} /\ store.exists)
        => /\ store'.exists
           /\ IsPrefix(store.conversation_history, store'.conversation_history) ]_vars

\* a handle call has added its turns behind the four of the first presentation
C20_Witness ==
  /\ Saved /\ call.op = "handle" /\ call.found /\ call.saved
  /\ Len(store.conversation_history) >= 7
  /\ store.conversation_history[4].message_type = "buttons"
  /\ store.conversation_history[5].stage = "user_input"
  /\ store.conversation_history[5].user_message = call.input

\* C21: in every saved session, conversation_count equals the length of
\* conversation_history and the k-th entry has turn = k: turn numbers increase by one
\* with no gaps or repeats.
C21_TurnNumbering ==
  Saved => /\ store.conversation_count = Len(store.conversation_history)
           /\ \A k \in 1..Len(store.conversation_history) :
                store.conversation_history[k].turn = k

\* a next_concept call has recorded its transition and the next concept's bubbles
C21_Witness ==
  /\ Saved /\ call.op = "handle" /\ IsNextConcept(call.input)
  /\ call.result.current_stage = "explain"
  /\ \E k \in 2..Len(store.conversation_history) :
       /\ store.conversation_history[k - 1].stage = "concept_transition"
       /\ store.conversation_history[k].stage = "explain"
       /\ store.conversation_history[k].turn = k

\* C22: concept_chunks is fetched once: after the first start of a session, no later
\* start or handle call changes the stored concept_chunks.
C22_ChunksImmutable ==
  [][ (store.exists /\ call'.op \in {"start", "handle"})
        => store'.concept_chunks = store.concept_chunks ]_vars

\* where the priority order sends a loaded record
PriorityRoute(state) ==
  IF state.is_complete THEN "conclusion"
  ELSE IF state.expecting_button_action THEN "handle_button"
  ELSE IF state.expecting_answer THEN "evaluate_answer"
  ELSE "detect_intent"

\* C23: handle_input routes by strict priority (is_complete -> conclusion, else
\* expecting_button_action -> handle_button, else expecting_answer -> evaluate_answer,
\* else detect_intent), after appending exactly one user turn carrying the message and
\* counting it as one turn.
C23_InputRouting ==
  [][ (store.exists /\ call'.nodes # <<>> /\ call'.nodes[1] = "handle_input")
        => LET n == Len(store.conversation_history)
               after == store'.conversation_history
               message == IF call'.op = "handle" THEN call'.input ELSE store.user_message
           IN /\ Len(call'.nodes) >= 2
              /\ call'.nodes[2] = PriorityRoute(store)
              /\ Len(after) >= n + 1
              /\ after[n + 1].stage = "user_input"
              /\ after[n + 1].user_message = message
              /\ after[n + 1].turn = store.conversation_count + 1
              /\ \A k \in (n + 2)..Len(after) :
                   /\ after[k].stage # "user_input"
                   /\ after[k].turn = store.conversation_count + 1 + (k - n - 1) ]_vars

\* a session that expected an answer and a button at once was sent to handle_button
C23_Witness ==
  /\ Saved /\ call.op = "handle"
  /\ call.nodes = <<"handle_input", "handle_button">>
  /\ call.result.current_stage = "button_response"
  /\ store.expecting_answer /\ store.expecting_button_action

\* the button whose human-readable phrase an input contains, in any letter case
PhraseAction(q) ==
  CASE LowerStrip(q) = "i need more examples" -> "more_examples"
    [] LowerStrip(q) = "can you re-explain?" -> "re_explain"
    [] OTHER -> None

\* a handle call was served as the more_examples button: examples, no relevance check,
\* learning support recorded
ServedAsMoreExamples ==
  /\ call.relevance = None
  /\ call.result.response.kind = "list"
  /\ call.result.response.msgs[1].assistant_message.t \in {"examples", "fallback_example"}
  /\ store.has_used_learning_support

\* C24: in button mode an input that contains a button's human-readable phrase in any
\* letter case is dispatched like the button's canonical token: "I need more examples"
\* is served as more_examples.
C24_PhraseMatching ==
  (/\ Saved /\ call.op = "handle" /\ call.saved
   /\ call.nodes = <<"handle_input", "handle_button">>
   /\ call.result.current_stage = "button_response"
   /\ PhraseAction(call.input) = "more_examples")
    => ServedAsMoreExamples

\* C25: on a PARTIAL or WRONG verdict evaluate_answer answers with a feedback bubble and
\* a buttons bubble offering more_examples, re_explain and check_understanding, clears
\* expecting_answer, sets expecting_button_action, and leaves the counter of correct
\* answers, concepts_learned, concept_mastered and current_chunk_index as they were.
C25_PartialWrongFeedback ==
  [][ (/\ store.exists /\ call'.op = "handle" /\ call'.saved
       /\ call'.nodes = <<"handle_input", "evaluate_answer">>
       /\ call'.verdict \in {"PARTIAL", "WRONG"})
        => LET msgs == call'.result.response.msgs
           IN /\ call'.result.response.kind = "list"
              /\ Len(msgs) = 2
              /\ msgs[1].message_type = "feedback"
              /\ msgs[1].buttons = <<>>
              /\ msgs[2].message_type = "buttons"
              /\ msgs[2].buttons = AllLearningButtons
              /\ ~store'.expecting_answer
              /\ store'.expecting_button_action
              /\ store'.current_concept_correct_answers = store.current_concept_correct_answers
              /\ store'.concepts_learned = store.concepts_learned
              /\ store'.concept_mastered = store.concept_mastered
              /\ store'.current_chunk_index = store.current_chunk_index ]_vars

\* a partially correct answer after one correct answer: the counter is still 1
C25_Witness ==
  /\ Saved /\ call.op = "handle"
  /\ call.nodes = <<"handle_input", "evaluate_answer">>
  /\ call.verdict = "PARTIAL"
  /\ call.result.current_stage = "partial_answer_feedback"
  /\ store.current_concept_correct_answers = 1
  /\ ~store.expecting_answer /\ store.expecting_button_action

\* C26: on a CORRECT verdict that leaves the counter of correct answers below
\* required_correct_answers, evaluate_answer adds exactly 1 to the counter, replaces
\* current_question and current_expected_keywords by a generated question and its
\* keywords, appends that question to current_concept_questions_asked, stays in quiz
\* mode (expecting_answer, not expecting_button_action) and leaves concepts_learned alone.
C26_CorrectBelowThreshold ==
  [][ (/\ store.exists /\ call'.op = "handle" /\ call'.saved
       /\ call'.nodes = <<"handle_input", "evaluate_answer">>
       /\ call'.verdict = "CORRECT"
       /\ store.current_concept_correct_answers + 1 < store.required_correct_answers)
        => LET title == store.current_question_concept
           IN /\ store'.current_concept_correct_answers
                   = store.current_concept_correct_answers + 1
              /\ store'.current_question \in {CheckQuestion(q, title) : q \in QuestionOut}
              /\ store'.current_expected_keywords
                   \in {extract_expected_keywords(k, title) : k \in KeywordsOut}
              /\ store'.current_concept_questions_asked
                   = Append(store.current_concept_questions_asked, store'.current_question)
              /\ store'.expecting_answer /\ ~store'.expecting_button_action
              /\ store'.concepts_learned = store.concepts_learned
              /\ call'.result.current_stage = "next_question" ]_vars

\* the first correct answer of a concept: counter 1 of 2, a second question pending
C26_Witness ==
  /\ Saved /\ call.op = "handle"
  /\ call.nodes = <<"handle_input", "evaluate_answer">>
  /\ call.verdict = "CORRECT"
  /\ call.result.current_stage = "next_question"
  /\ store.current_concept_correct_answers = 1
  /\ Len(store.current_concept_questions_asked) = 2
  /\ store.expecting_answer /\ ~store.concept_mastered

\* the concept under question was mastered earlier in the session
AlreadyMastered(state) ==
  \E i \in 1..Len(state.concepts_learned) :
     state.concepts_learned[i] = state.current_question_concept

\* C27: a CORRECT verdict on a question about a concept that is already mastered (also a
\* question obtained through more_questions) is answered by the additional_correct
\* bubble pair, without adding to the counter of correct answers or to concepts_learned.
C27_AdditionalCorrect ==
  [][ (/\ store.exists /\ call'.op = "handle" /\ call'.saved
       /\ call'.nodes = <<"handle_input", "evaluate_answer">>
       /\ call'.verdict = "CORRECT"
       /\ AlreadyMastered(store))
        => /\ call'.result.current_stage = "additional_correct"
           /\ store'.current_concept_correct_answers = store.current_concept_correct_answers
           /\ store'.concepts_learned = store.concepts_learned ]_vars

\* C28: more_questions and next_concept are honoured only for a mastered concept: in
\* button mode with concept_mastered false either input is handled as unrecognized input
\* (relevance check, stage button_response) and changes none of current_chunk_index,
\* expecting_answer, expecting_button_action, concept_mastered.
C28_MasteryButtonsGated ==
  [][ (/\ store.exists /\ call'.op = "handle" /\ call'.saved
       /\ Len(call'.nodes) >= 2
       /\ call'.nodes[1] = "handle_input" /\ call'.nodes[2] = "handle_button"
       /\ LowerStrip(call'.input) \in {"more_questions", "next_concept"}
       /\ ~store.concept_mastered)
        => /\ call'.nodes = <<"handle_input", "handle_button">>
           /\ call'.result.current_stage = "button_response"
           /\ call'.relevance # None
           /\ call'.result.response.kind = "list"
           /\ call'.result.response.msgs[1].message_type = "response"
           /\ store'.current_chunk_index = store.current_chunk_index
           /\ store'.expecting_answer = store.expecting_answer
           /\ store'.expecting_button_action = store.expecting_button_action
           /\ store'.concept_mastered = store.concept_mastered ]_vars

\* number of bubbles in a response body: a plain string is one bubble
Bubbles(resp) ==
  IF resp.kind = "list" THEN Len(resp.msgs) ELSE IF resp.kind = "str" THEN 1 ELSE 0

\* number of turns in positions from + 1 .. Len(history) that are not the user's own
AssistantTurns(history, from) ==
  Cardinality({k \in (from + 1)..Len(history) : history[k].stage # "user_input"})

\* C29: for every start or handle call the number of assistant turns appended to
\* conversation_history during the call equals the number of bubbles in the returned
\* response: each bubble is recorded exactly once, also on the next_concept call.
C29_BubblesRecordedOnce ==
  [][ (call'.op \in {"start", "handle"} /\ call'.saved /\ call'.nodes # <<>>)
        => LET before == IF store.exists THEN Len(store.conversation_history) ELSE 0
           IN AssistantTurns(store'.conversation_history, before)
                = Bubbles(call'.result.response) ]_vars

\* C30: when present_concept presents a concept (current_chunk_index below the number
\* of chunks), the session saved at the end of the call has
\* current_concept_correct_answers = 0, no current_concept_questions_asked and
\* has_used_learning_support false, whatever they were before the call.
C30_PerConceptReset ==
  [][ (/\ call'.op \in {"start", "handle"} /\ call'.saved
       /\ call'.nodes # <<>>
       /\ call'.nodes[Len(call'.nodes)] = "present_concept"
       /\ call'.result.current_stage = "explain"
       /\ IF store.exists
          THEN Len(store'.conversation_history) > Len(store.conversation_history)
          ELSE TRUE)
        => /\ store'.current_concept_correct_answers = 0
           /\ store'.current_concept_questions_asked = <<>>
           /\ ~store'.has_used_learning_support ]_vars

\* C31: when the explanation does not parse into its three sections (here: the
\* generation service answers with its apology), present_concept falls back to one
\* combined bubble built from the stored chunk content, followed by the buttons bubble.
C31_SingleBubbleFallback ==
  (/\ Failing /\ Saved /\ call.op = "start" /\ call.saved /\ ~call.found
   /\ call.nodes = <<"present_concept">>
   /\ call.result.current_stage = "explain")
    => LET msgs == call.result.response.msgs
           content == store.concept_chunks[store.current_chunk_index + 1].content
       IN /\ Len(msgs) = 2
          /\ msgs[1].assistant_message = Text("content", 0, content)
          /\ msgs[1].message_type = "response"
          /\ msgs[2].message_type = "buttons"

\* C32: every response of a start or handle call that ran the graph on an existing
\* session has message_format "single" or "multiple_bubbles", with a plain string body
\* exactly for "single" and a list of bubbles exactly for "multiple_bubbles" (also for
\* the completion summary after next_concept and the conclusion summary).
C32_MessageFormat ==
  (/\ call.op \in {"start", "handle"} /\ call.found /\ call.saved /\ call.nodes # <<>>)
    => /\ call.result.message_format \in {"single", "multiple_bubbles"}
       /\ call.result.response.kind = "str" <=> call.result.message_format = "single"
       /\ call.result.response.kind = "list"
            <=> call.result.message_format = "multiple_bubbles"

\* C33: handle_custom handles an input like handle_qa does: it asks for the relevance
\* of the input, answers a RELEVANT input through the question-answering tool and
\* gives the off-topic redirect only for an IRRELEVANT one; either way it appends a
\* buttons bubble and sets expecting_button_action.
C33_CustomLikeQA ==
  (/\ call.op = "detect"
   /\ call.nodes = <<"handle_input", "detect_intent", "handle_custom">>)
    => LET msgs == call.result.response.msgs
       IN /\ Len(msgs) = 2
          /\ msgs[2].message_type = "buttons"
          /\ call.expecting_button_action
          /\ call.relevance # None
          /\ call.answered <=> check_question_relevance(call.relevance) = "RELEVANT"
          /\ call.answered => msgs[1].assistant_message.t \in {"answer", "stay_on_topic"}
          /\ ~call.answered => msgs[1].assistant_message.t = "off_topic"

\* C34: after detect_intent an input classified ACKNOWLEDGEMENT is handled by
\* handle_ack (the fixed nudge, stage "ack", no flag change), one classified
\* ASKING_QUESTION by handle_qa, and any other classification by handle_custom.
C34_IntentRouting ==
  (call.op = "detect")
    => /\ Len(call.nodes) = 3
       /\ call.classification = "ACKNOWLEDGEMENT"
            => /\ call.nodes[3] = "handle_ack"
               /\ call.result.current_stage = "ack"
               /\ call.result.response = StrResponse(Text("nudge", 0, ""))
               /\ call.expecting_answer = store.expecting_answer
               /\ call.expecting_button_action = store.expecting_button_action
       /\ call.classification = "ASKING_QUESTION" => call.nodes[3] = "handle_qa"
       /\ call.classification \notin {"ACKNOWLEDGEMENT", "ASKING_QUESTION"}
            => call.nodes[3] = "handle_custom"

\* C35: in a session created by start with at least one concept chunk, after every
\* start or handle call either the saved session is complete or exactly one of
\* expecting_answer and expecting_button_action is true; so no handle call on such a
\* session runs detect_intent, handle_ack, handle_qa or handle_custom.
C35_ExactlyOneMode ==
  (Saved /\ store.concept_chunks # <<>> /\ call.op \in {"start", "handle"})
    => /\ \/ store.is_complete
          \/ store.expecting_answer # store.expecting_button_action
       /\ \A k \in 1..Len(call.nodes) :
            call.nodes[k] \notin {"detect_intent", "handle_ack", "handle_qa", "handle_custom"}

\* C36: in every saved session, concept_mastered implies that the counter of correct
\* answers has reached required_correct_answers: the increment that brought mastery
\* is part of the saved state.
C36_MasteredCounter ==
  (Saved /\ store.concept_mastered)
    => store.current_concept_correct_answers >= store.required_correct_answers

\* C37: in every saved session that is not complete and expects an answer or a
\* button, current_question_concept is the title of the chunk under the cursor and
\* current_content is that chunk's content, also after a second start on the session.
C37_CursorContext ==
  (/\ Saved /\ ~store.is_complete
   /\ store.expecting_answer \/ store.expecting_button_action)
    => /\ store.current_chunk_index < Len(store.concept_chunks)
       /\ LET current == store.concept_chunks[store.current_chunk_index + 1]
          IN /\ store.current_question_concept = ChunkTitle(current)
             /\ store.current_content = current.content

\* C38: whenever a start or handle call that ran the graph on an existing session
\* returns is_session_complete true, the session it saved has is_complete true, and
\* whenever it returns is_session_complete false, the saved session has is_complete
\* false.
C38_CompleteFlagsAgree ==
  (/\ call.op \in {"start", "handle"} /\ call.found /\ call.saved /\ call.nodes # <<>>)
    => call.result.is_session_complete = store.is_complete

\* the only call so far was a fresh start that presented the first concept
AfterFirstStart ==
  /\ Saved /\ call.seq = 1 /\ call.op = "start" /\ ~call.found /\ call.saved
  /\ call.result.current_stage = "explain"

\* C39: a second start on a session whose only call so far was a fresh start (stage
\* "explain") skips the presentation: it appends no turn, leaves conversation_count
\* and both routing flags as they were and returns the bubbles of the first start.
C39_SecondStartSkips ==
  [][ (AfterFirstStart /\ call'.op = "start")
        => /\ call'.nodes = <<"present_concept">>
           /\ store'.conversation_history = store.conversation_history
           /\ store'.conversation_count = store.conversation_count
           /\ store'.expecting_answer = store.expecting_answer
           /\ store'.expecting_button_action = store.expecting_button_action
           /\ call'.result.response = call.result.response
           /\ call'.result.conversation_count = call.result.conversation_count ]_vars

\* the second start returned the four bubbles again and the history holds four turns
C39_Witness ==
  /\ Saved /\ call.seq = 2 /\ call.op = "start" /\ call.found /\ call.saved
  /\ call.nodes = <<"present_concept">>
  /\ call.result.current_stage = "explain"
  /\ Len(call.result.response.msgs) = 4
  /\ Len(store.conversation_history) = 4
  /\ store.conversation_count = 4

\* C40: a start or handle call writes to the store at most once, as its last step:
\* when a node raises during the call, the stored session is exactly what it was
\* before the call, with no turn, counter or flag change of the call in it.
C40_NoPartialWrite ==
  [][ (/\ store.exists /\ call'.op \in {"start", "handle"}
       /\ call'.nodes # <<>> /\ ~call'.saved)
        => /\ store' = store
           /\ call'.result = Failure ]_vars

\* an answer that would have been judged CORRECT was lost with the call that raised:
\* the stored session still has no correct answer and no turn of that call
C40_Witness ==
  /\ Saved /\ call.op = "handle" /\ ~call.saved
  /\ call.nodes = <<"handle_input", "evaluate_answer">>
  /\ call.verdict = "CORRECT"
  /\ call.result = Failure
  /\ store.current_concept_correct_answers = 0
  /\ store.expecting_answer
  /\ store.conversation_history[Len(store.conversation_history)].stage = "quiz_question"
====
